---- MODULE Spec2Model ----
(***************************************************************************)
(* State cache and refresh engine of audio_taskbar_switcher.pyw:           *)
(* the `state` dictionary guarded by `state_lock`, the monitor mapping     *)
(* file, the refresh passes (collect_state / _refresh_worker), the menu    *)
(* handlers (set default device, set DPI, set mapping) and the menu read.  *)
(*                                                                         *)
(* Thread 0 is the main thread: it runs the start-up collect_state of      *)
(* run_tray and then the tray loop, on which pystray evaluates the menu    *)
(* and invokes the menu callbacks.  Threads 1..MaxWorkers are the daemon   *)
(* threads the handlers and refresh_state_async start.                     *)
(***************************************************************************)
EXTENDS Integers, Sequences, FiniteSets, TLC

\* ---------------------------------------------------------------- bounds
MaxWorkers == 3     \* daemon threads alive at the same time
MaxOps == 2         \* menu callbacks the user triggers in one run
MaxFaults == 1      \* provider / storage failures injected in one run
MaxFileLen == 4     \* JSON tokens of a mapping file given to load_map alone

\* ------------------------------------------------------ program constants
MAX_IDX_CHOICES == 8

Main == 0
Workers == 1..MaxWorkers
Threads == 0..MaxWorkers

Roles == {"output", "output_comm", "input", "input_comm"}
None == "None"

\* ----------------------------------------------------------- environment
\* What `Get-AudioDevice -List | ConvertTo-Json` decodes to when it works.
HwDevices ==
  << [tag |-> "dict", Name |-> "Speakers", ID |-> "o1", DataFlow |-> 0],
     [tag |-> "dict", Name |-> "Headset", ID |-> "o2", DataFlow |-> 0],
     [tag |-> "dict", Name |-> "Mic", ID |-> "i1", DataFlow |-> 1] >>

\* A decoded listing that is valid JSON but not a list of device objects.
BadShapeDevices == << [tag |-> "num", Name |-> "", ID |-> "", DataFlow |-> 0] >>

\* What the WmiMonitorID query decodes to when it works.
HwMons ==
  << [index |-> 1, name |-> "MonA", fp |-> "fpA"],
     [index |-> 2, name |-> "MonB", fp |-> "fpB"] >>

\* Indices SetDpi.exe knows a display for.
HwIdx == {1, 2, 3}

\* Inputs the handlers are called with.
PctInputs == {100, 125}
IdxInputs == {n \in 1..MAX_IDX_CHOICES : n \in {1, 3}}
RoleInputs == {"console", "communications"}

\* ------------------------------------------------------------- utilities
Range(s) == {s[i] : i \in 1..Len(s)}

EmptyMap == [x \in {} |-> 0]

\* DictSet with a fault: the assignment is made on a new, empty dict.
DictSet_Fresh(d, k, v) == [x \in {k} |-> v]

\* DictSet with a fault: an existing key keeps its value (setdefault).
DictSet_KeepOld(d, k, v) ==
  [x \in (DOMAIN d) \cup {k} |-> IF x \in DOMAIN d THEN d[x] ELSE v]

\* Python dict item assignment d[k] = v on a copy of d.
DictSet(d, k, v) == [x \in (DOMAIN d) \cup {k} |-> IF x = k THEN v ELSE d[x]]

\* Python d.get(k, dflt).
DictGet(d, k, dflt) == IF k \in DOMAIN d THEN d[k] ELSE dflt

Min(S) == CHOOSE x \in S : \A y \in S : x <= y

\* ---------------------------------------------------------------- state
VARIABLES
  pc,          \* position of every thread
  loc,         \* collect_state locals of every thread
  arg,         \* arguments of the handler a worker thread runs
  exc,         \* an exception is propagating in the thread
  state,       \* the `state` dictionary
  state_lock,  \* set of threads holding state_lock (empty or one thread)
  file,        \* content of MAP_FILE, a sequence of JSON tokens
  hw,          \* the hardware: default endpoints and per-index scaling
  ui,          \* locals of the menu callbacks running on the main thread
  now,         \* time.time()
  faults,      \* failures injected so far
  ops,         \* menu callbacks triggered so far
  nstarted,    \* refresh passes the current/last action of a thread started
  wrote,       \* the refresh pass of the thread assigned a field of `state`
  track,       \* bookkeeping of the set_mapping calls made so far
  tray_menu    \* the callable tray_icon.menu evaluates

vars == << pc, loc, arg, exc, state, state_lock, file, hw, ui, now, faults,
           ops, nstarted, wrote, track, tray_menu >>

\* -------------------------------------------------------- the cache dict
\* EmptyState with a fault: the timestamp starts without a value.
EmptyState_NoTimestamp ==
  [ outs |-> << >>, ins |-> << >>, defs |-> [x \in {} |-> 0], mons |-> << >>,
    dpi |-> [x \in {} |-> 0], idx_map |-> [x \in {} |-> 0], last_update |-> -1 ]

\* The module-level `state` dictionary.
EmptyState ==
  [ outs |-> << >>, ins |-> << >>, defs |-> EmptyMap, mons |-> << >>,
    dpi |-> EmptyMap, idx_map |-> EmptyMap, last_update |-> 0 ]

BlankLoc ==
  [ outs |-> << >>, ins |-> << >>, defs |-> EmptyMap, mons |-> << >>,
    idx_map |-> EmptyMap, dpi |-> EmptyMap, i |-> 0, idx |-> 0 ]

\* Arguments of a worker thread; for a refresh pass, what started it.
BlankArg ==
  [ id |-> "", role |-> "", pct |-> 0, idx |-> 0, fp |-> "", src |-> "",
    saved |-> FALSE ]

\* ------------------------------------------------------ the mapping file
\* The file is a sequence of JSON tokens.  A member token carries its key and
\* its value: an integer (v), a float (v tenths), a boolean (v is 0 or 1), a
\* string (s, a sequence of characters), null or a nested list.
NoStr == << >>
TokOpen == [t |-> "open", k |-> "", v |-> 0, ty |-> "", s |-> NoStr]
TokClose == [t |-> "close", k |-> "", v |-> 0, ty |-> "", s |-> NoStr]
TokListOpen == [t |-> "lopen", k |-> "", v |-> 0, ty |-> "", s |-> NoStr]
TokListClose == [t |-> "lclose", k |-> "", v |-> 0, ty |-> "", s |-> NoStr]
TokPair(key, val) == [t |-> "pair", k |-> key, v |-> val, ty |-> "int", s |-> NoStr]
TokMember(key, type, val, str) ==
  [t |-> "pair", k |-> key, v |-> val, ty |-> type, s |-> str]

RECURSIVE DumpPairs(_, _)
DumpPairs(m, keys) ==
  IF keys = {} THEN << >>
  ELSE LET key == CHOOSE x \in keys : TRUE
       IN << TokPair(key, m[key]) >> \o DumpPairs(m, keys \ {key})

\* json.dump(m, f): the object's opening brace, its members, its closing brace.
JsonDump(m) == << TokOpen >> \o DumpPairs(m, DOMAIN m) \o << TokClose >>

\* json.load(f) succeeds on exactly one complete object.
JsonValid(f) ==
  /\ Len(f) >= 2
  /\ f[1].t = "open"
  /\ f[Len(f)].t = "close"
  /\ \A i \in 2..(Len(f) - 1) : f[i].t = "pair"

\* int(str): surrounding blanks are stripped, then decimal digits are read.
Digits == {"0", "1", "2", "3", "4", "5", "6", "7", "8", "9"}
DigitVal(c) ==
  CASE c = "0" -> 0 [] c = "1" -> 1 [] c = "2" -> 2 [] c = "3" -> 3
    [] c = "4" -> 4 [] c = "5" -> 5 [] c = "6" -> 6 [] c = "7" -> 7
    [] c = "8" -> 8 [] OTHER -> 9

RECURSIVE Strip(_)
Strip(str) ==
  IF str = << >> THEN str
  ELSE IF Head(str) = " " THEN Strip(Tail(str))
  ELSE IF str[Len(str)] = " " THEN Strip(SubSeq(str, 1, Len(str) - 1))
  ELSE str

RECURSIVE DecimalValue(_)
DecimalValue(str) ==
  IF str = << >> THEN 0
  ELSE 10 * DecimalValue(SubSeq(str, 1, Len(str) - 1)) + DigitVal(str[Len(str)])

\* The digits of a stripped string, after its optional sign.
Unsigned(str) ==
  IF str # << >> /\ Head(str) \in {"+", "-"} THEN Tail(str) ELSE str

\* int(v) raises ValueError or TypeError.
IntRaises(tok) ==
  \/ tok.ty \in {"null", "list"}
  \/ /\ tok.ty = "str"
     /\ LET d == Unsigned(Strip(tok.s))
        IN d = << >> \/ \E i \in 1..Len(d) : d[i] \notin Digits

\* int(v) of a JSON value: an integer is kept, a float is truncated, a boolean
\* becomes 0 or 1, a string of digits is parsed.
IntOf(tok) ==
  CASE tok.ty = "int" -> tok.v
    [] tok.ty = "float" -> tok.v \div 10
    [] tok.ty = "bool" -> tok.v
    [] OTHER -> LET str == Strip(tok.s)
                IN IF Head(str) = "-" THEN 0 - DecimalValue(Unsigned(str))
                   ELSE DecimalValue(Unsigned(str))

\* The object json.load returns, each value converted by int(): for a
\* repeated key the last member wins.
JsonLoad(f) ==
  LET keys == {f[i].k : i \in 2..(Len(f) - 1)}
      last(key) == CHOOSE i \in 2..(Len(f) - 1) :
                     /\ f[i].k = key
                     /\ \A j \in 2..(Len(f) - 1) : f[j].k = key => j <= i
  IN [key \in keys |-> IntOf(f[last(key)])]

\* What raises inside the `try` of load_map: json.load on an incomplete
\* document, data.items() on a document that is a list, int(v) on a value it
\* rejects (only the members json.load kept are converted).
LoadRaises(f) ==
  \/ ~JsonValid(f)
  \/ \E i \in 2..(Len(f) - 1) :
       /\ \A j \in (i + 1)..(Len(f) - 1) : f[j].k # f[i].k
       /\ IntRaises(f[i])

\* load_map(): the stored table, or {} on any failure.
load_map(f) == IF LoadRaises(f) THEN EmptyMap ELSE JsonLoad(f)

\* ------------------------------------------------------- audio providers
\* What PowerShell prints for the endpoint listing.
AudioStdouts ==
  { [kind |-> "json", data |-> HwDevices],
    [kind |-> "json", data |-> BadShapeDevices],
    [kind |-> "garbage", data |-> << >>] }

\* list_audio_devices(): the decoded listing, [] when it does not decode.
list_audio_devices(out) == IF out.kind = "json" THEN out.data ELSE << >>

\* d.get(...) raises on an element that is not a JSON object.
ByTypeRaises(devices) == \E d \in Range(devices) : d.tag # "dict"

list_devices_by_type_from_raw(devices, device_type) ==
  LET is_type(d) == \/ (device_type = "playback" /\ d.DataFlow = 0)
                    \/ (device_type = "recording" /\ d.DataFlow = 1)
      sel == SelectSeq(devices, LAMBDA d : d.Name # "" /\ is_type(d))
  IN [j \in 1..Len(sel) |-> << sel[j].Name, sel[j].ID >>]

\* get_default_ids(): one lookup per role; an empty answer becomes None.
get_default_ids(answers) ==
  [r \in Roles |-> IF answers[r] = "" THEN None ELSE answers[r]]

\* The role a Set-AudioDevice call changes for the given endpoint.
IsPlayback(id) == \E d \in Range(HwDevices) : d.ID = id /\ d.DataFlow = 0
IsRecording(id) == \E d \in Range(HwDevices) : d.ID = id /\ d.DataFlow = 1

RolesSet(id, role) ==
  LET con == IF IsPlayback(id) THEN {"output"}
             ELSE IF IsRecording(id) THEN {"input"} ELSE {}
      com == IF IsPlayback(id) THEN {"output_comm"}
             ELSE IF IsRecording(id) THEN {"input_comm"} ELSE {}
  IN IF role = "console" THEN con
     ELSE IF role = "communications" THEN com
     ELSE con \cup com

\* ----------------------------------------------------- monitor providers
\* list_monitors() when the query output does not decode.
FallbackMons ==
  << [index |-> 1, name |-> "Monitor #1", fp |-> "FAKE||1"],
     [index |-> 2, name |-> "Monitor #2", fp |-> "FAKE||2"] >>

\* EffIdx with a fault: the mapping is ignored.
EffIdx_Ephemeral(idx_map, m) == m.index

\* idx_map.get(m["fp"], m["index"])
EffIdx(idx_map, m) == DictGet(idx_map, m.fp, m.index)

EffSet(mons, idx_map) == {EffIdx(idx_map, mons[i]) : i \in 1..Len(mons)}

\* MenuIdx with a fault: an unmapped monitor gets no index of its own.
MenuIdx_NoFallback(idx_map, m) == DictGet(idx_map, m.fp, 0)

\* idx_map.get(m["fp"], m["index"]) of the menu loops.
MenuIdx(idx_map, m) == DictGet(idx_map, m.fp, m.index)

\* The indices the "set DPI" submenus bind their handlers to.
MenuIdxSet(mons, idx_map) == {MenuIdx(idx_map, mons[i]) : i \in 1..Len(mons)}

\* The CompletedProcess of `SetDpi.exe value <monitor>` when the tool works:
\* the scale of a display it knows, nothing for an index it does not know.
SetDpiValue(h, monitor) ==
  IF monitor \in HwIdx
  THEN [returncode |-> 0, stdout |-> ToString(h.dpi[monitor])]
  ELSE [returncode |-> 1, stdout |-> ""]

\* The CompletedProcess of a run that fails: a non-zero exit status, with an
\* error text or with nothing on standard output.
SetDpiFailures ==
  { [returncode |-> 1, stdout |-> "Invalid monitor"],
    [returncode |-> 1, stdout |-> ""] }

\* get_dpi_value(monitor) after subprocess.run: the text printed, whatever
\* the exit status, or None when nothing was printed.
get_dpi_value(cp) == IF cp.stdout = "" THEN None ELSE cp.stdout

\* What PowerShell prints for the monitor query.
MonStdouts ==
  { [kind |-> "json", data |-> HwMons],
    [kind |-> "empty", data |-> << >>],
    [kind |-> "garbage", data |-> << >>] }

\* list_monitors(): the decoded list, [] for no output, the FAKE pair when
\* the output does not decode.
list_monitors(out) ==
  IF out.kind = "json" THEN out.data
  ELSE IF out.kind = "empty" THEN << >>
  ELSE FallbackMons

\* Roles whose default lookup may print nothing.
FailRoles == {"output"}

\* ------------------------------------------------------------------ Init
InitFiles == { << >>, JsonDump([x \in {"fpB"} |-> 2]) }

InitHw ==
  [ defs |-> [r \in Roles |-> IF r \in {"output", "output_comm"} THEN "o1" ELSE "i1"],
    dpi |-> [i \in HwIdx |-> 100] ]

BlankUi == [ copy |-> EmptyState, new_map |-> EmptyMap, fp |-> "", idx |-> 0,
             saved |-> FALSE, empty0 |-> FALSE, before |-> << >> ]

Init ==
  /\ pc = [t \in Threads |-> IF t = Main THEN "c_audio" ELSE "unborn"]
  /\ loc = [t \in Threads |-> BlankLoc]
  /\ arg = [t \in Threads |-> BlankArg]
  /\ exc = [t \in Threads |-> FALSE]
  /\ state = EmptyState
  /\ state_lock = {}
  /\ file \in InitFiles
  /\ hw = InitHw
  /\ ui = BlankUi
  /\ now = 0
  /\ faults = 0
  /\ ops = 0
  /\ nstarted = [t \in Threads |-> 0]
  /\ wrote = [t \in Threads |-> FALSE]
  /\ track = [ saveFailed |-> FALSE, expect |-> DOMAIN load_map(file),
               lastMap |-> FALSE ]
  /\ tray_menu = "build_menu_fast"

\* --------------------------------------------------------- fault injection
CanFail == faults < MaxFaults
Fail == CanFail /\ faults' = faults + 1
NoFail == faults' = faults

\* ------------------------------------------------- collect_state, by step
\* WorkerCatch with a fault: the exception is not caught.
WorkerCatch_Reraise(t, end) == pc' = [pc EXCEPT ![t] = "crashed"]

\* `except Exception: pass` of _refresh_worker and of run_tray: the thread
\* goes on normally, a worker to its end.
WorkerCatch(t, end) ==
  pc' = [pc EXCEPT ![t] = IF t = Main THEN "ui_idle" ELSE end]

\* CollectExcept with a fault: a failed collection blanks the cache.
CollectExcept_Blank(t) ==
  /\ WorkerCatch(t, "aborted")
  /\ loc' = [loc EXCEPT ![t] = BlankLoc]
  /\ arg' = [arg EXCEPT ![t] = BlankArg]
  /\ state' = EmptyState
  /\ UNCHANGED << state_lock, now, wrote >>

\* An exception leaves collect_state before its `with state_lock` block.
CollectExcept(t) ==
  /\ WorkerCatch(t, "aborted")
  /\ loc' = [loc EXCEPT ![t] = BlankLoc]
  /\ arg' = [arg EXCEPT ![t] = BlankArg]
  /\ UNCHANGED << state, state_lock, now, wrote >>

\* raw_devices = list_audio_devices(); outs = ...; ins = ...;
\* defs = get_default_ids()
CollectAudio(t) ==
  /\ pc[t] = "c_audio"
  /\ \/ Fail /\ CollectExcept(t)                       \* run_ps raises
     \/ \E out \in AudioStdouts :
          /\ IF out.kind = "json" /\ out.data = HwDevices THEN NoFail ELSE Fail
          /\ LET raw == list_audio_devices(out)
             IN IF ByTypeRaises(raw)
                THEN CollectExcept(t)
                ELSE /\ pc' = [pc EXCEPT ![t] = "c_mons"]
                     /\ loc' = [loc EXCEPT
                          ![t].outs = list_devices_by_type_from_raw(raw, "playback"),
                          ![t].ins = list_devices_by_type_from_raw(raw, "recording"),
                          ![t].defs = get_default_ids(hw.defs)]
                     /\ UNCHANGED << arg, state, state_lock, now, wrote >>
     \/ \E r \in FailRoles :                           \* one lookup prints nothing
          /\ Fail
          /\ pc' = [pc EXCEPT ![t] = "c_mons"]
          /\ loc' = [loc EXCEPT
               ![t].outs = list_devices_by_type_from_raw(HwDevices, "playback"),
               ![t].ins = list_devices_by_type_from_raw(HwDevices, "recording"),
               ![t].defs = get_default_ids([hw.defs EXCEPT ![r] = ""])]
          /\ UNCHANGED << arg, state, state_lock, now, wrote >>
  /\ UNCHANGED << exc, file, hw, ui, ops, nstarted, track, tray_menu >>

\* mons = list_monitors(); idx_map = load_map()
CollectMons(t) ==
  /\ pc[t] = "c_mons"
  /\ \/ Fail /\ CollectExcept(t)                       \* run_ps raises
     \/ \E out \in MonStdouts :
          /\ IF out.kind = "json" THEN NoFail ELSE Fail
          /\ loc' = [loc EXCEPT ![t].mons = list_monitors(out),
                                ![t].idx_map = load_map(file), ![t].i = 1]
          /\ pc' = [pc EXCEPT ![t] =
                      IF Len(list_monitors(out)) = 0 THEN "p_outs" ELSE "c_dpi"]
          /\ UNCHANGED << arg, state, state_lock, now, wrote >>
     \/ /\ Fail                                        \* open(MAP_FILE) raises
        /\ loc' = [loc EXCEPT ![t].mons = HwMons, ![t].idx_map = EmptyMap,
                              ![t].i = 1]
        /\ pc' = [pc EXCEPT ![t] = "c_dpi"]
        /\ UNCHANGED << arg, state, state_lock, now, wrote >>
  /\ UNCHANGED << exc, file, hw, ui, ops, nstarted, track, tray_menu >>

\* One turn of `for m in mons`: idx, val = get_dpi_value(idx), dpi[idx] = val.
CollectDpi(t) ==
  /\ pc[t] = "c_dpi"
  /\ LET m == loc[t].mons[loc[t].i]
         idx == EffIdx(loc[t].idx_map, m)
         last == loc[t].i = Len(loc[t].mons)
         store(val) ==
           /\ loc' = [loc EXCEPT
                ![t].dpi = IF val # None THEN DictSet(@, idx, val) ELSE @,
                ![t].i = @ + 1,
                ![t].idx = idx]
           /\ pc' = [pc EXCEPT ![t] = IF last THEN "p_outs" ELSE "c_dpi"]
           /\ UNCHANGED << arg, state, state_lock, now, wrote >>
     IN \/ NoFail /\ store(get_dpi_value(SetDpiValue(hw, idx)))
        \/ Fail /\ store(None)                         \* SetDpi.exe is missing
        \/ Fail /\ \E cp \in SetDpiFailures : store(get_dpi_value(cp))
        \/ Fail /\ CollectExcept(t)                    \* subprocess.run raises
  /\ UNCHANGED << exc, file, hw, ui, ops, nstarted, track, tray_menu >>

\* PubFields with a fault: `defs` is assigned twice and `mons` never.
PubFields_DefsTwice ==
  << "outs", "ins", "defs", "defs", "idx_map", "dpi", "last_update" >>

\* The seven assignments of the `with state_lock` block, in order.
PubFields == << "outs", "ins", "defs", "mons", "idx_map", "dpi", "last_update" >>
PubPc == << "p_outs", "p_ins", "p_defs", "p_mons", "p_idx_map", "p_dpi", "p_last_update" >>
NFields == Len(PubFields)

\* PublishAcquire with a fault: passes are serialized, a pass publishes only
\* when no pass on a lower thread slot is still collecting or waiting.
PublishAcquire_Serialized(t) ==
  /\ state_lock = {}
  /\ \A u \in Threads :
       u < t => pc[u] \notin {"c_audio", "c_mons", "c_dpi", "p_outs"}

\* PublishAcquire with a fault: the block is entered without the lock.
PublishAcquire_NoLock(t) == TRUE

\* `with state_lock:` of collect_state.
PublishAcquire(t) == state_lock = {}

\* LastUpdate with a fault: the pass stamps its snapshot with a number fixed
\* when the pass was started, the slot of its thread, not with the clock.
LastUpdate_AtStart(t) == t + 1

\* time.time() of `state["last_update"] = time.time()`: the clock is read
\* inside the block, when the snapshot is published.
LastUpdate(t) == now + 1

\* state[field] = value, the k-th assignment of the block; the first one
\* enters the block and the last one leaves it.
Publish(t, k) ==
  /\ pc[t] = PubPc[k]
  /\ k = 1 => PublishAcquire(t)
  /\ state' = [state EXCEPT ![PubFields[k]] =
                 IF k = NFields THEN LastUpdate(t) ELSE loc[t][PubFields[k]]]
  /\ now' = IF k = NFields THEN now + 1 ELSE now
  /\ state_lock' = IF k = NFields THEN state_lock \ {t} ELSE state_lock \cup {t}
  /\ wrote' = [wrote EXCEPT ![t] = TRUE]
  /\ pc' = [pc EXCEPT ![t] = IF k < NFields THEN PubPc[k + 1]
                             ELSE IF t = Main THEN "ui_idle" ELSE "notify"]
  /\ loc' = IF k = NFields THEN [loc EXCEPT ![t] = BlankLoc] ELSE loc
  /\ UNCHANGED << arg, exc, file, hw, ui, faults, ops, nstarted, track,
                  tray_menu >>

\* tray_icon.menu = ...; tray_icon.update_menu()
Notify(t) ==
  /\ pc[t] = "notify"
  /\ \/ NoFail /\ pc' = [pc EXCEPT ![t] = "done"]
     \/ Fail /\ WorkerCatch(t, "done")                 \* update_menu raises
  /\ tray_menu' = "_menu_items_dynamic"
  /\ arg' = [arg EXCEPT ![t] = BlankArg]
  /\ UNCHANGED << loc, exc, state, state_lock, file, hw, ui, now, ops,
                  nstarted, wrote, track >>

\* ------------------------------------------------------ starting threads
FreeSlots == {w \in Workers : pc[w] \in {"unborn", "done", "aborted", "a_done", "a_raised"}}

\* Handler threads that have not started their refresh pass yet.
Pending == {w \in Workers : pc[w] \in {"a_run", "a_fin", "d_run", "d_fin"}}

Room(n) == Cardinality(FreeSlots) - Cardinality(Pending) >= n

\* threading.Thread(target=..., daemon=True).start() by thread t, which moves
\* to tpc and has then started n refresh passes; the new thread starts at
\* startpc with arguments a.
StartThread(t, tpc, startpc, a, n) ==
  LET w == Min(FreeSlots)
  IN /\ FreeSlots # {}
     /\ pc' = [pc EXCEPT ![t] = tpc, ![w] = startpc]
     /\ loc' = [loc EXCEPT ![w] = BlankLoc]
     /\ arg' = [arg EXCEPT ![t] = BlankArg, ![w] = a]
     /\ exc' = [exc EXCEPT ![t] = FALSE, ![w] = FALSE]
     /\ nstarted' = [nstarted EXCEPT ![w] = 0, ![t] = n]
     /\ wrote' = [wrote EXCEPT ![w] = FALSE]

\* refresh_state_async() called by thread t, which had started n passes.
refresh_state_async(t, tpc, a, n) == StartThread(t, tpc, "c_audio", a, n + 1)

\* ------------------------------------------------ menu read on the tray loop
ReadPc == << "r_outs", "r_ins", "r_defs", "r_mons", "r_idx_map", "r_dpi", "r_ts" >>

\* The tray loop evaluates tray_icon.menu: build_menu_fast() starts a refresh
\* pass and goes on to _menu_items_dynamic(); after the first pass replaced
\* the menu, _menu_items_dynamic() is evaluated alone.
OpenMenu ==
  /\ pc[Main] = "ui_idle"
  /\ ops < MaxOps
  /\ IF tray_menu = "build_menu_fast"
     THEN /\ Room(1)
          /\ refresh_state_async(Main, "r_outs", [BlankArg EXCEPT !.src = "menu"], 0)
     ELSE /\ pc' = [pc EXCEPT ![Main] = "r_outs"]
          /\ nstarted' = [nstarted EXCEPT ![Main] = 0]
          /\ UNCHANGED << loc, arg, exc, wrote >>
  /\ ops' = ops + 1
  /\ track' = [track EXCEPT !.lastMap = FALSE]
  /\ UNCHANGED << state, state_lock, file, hw, ui, now, faults, tray_menu >>

\* `with state_lock:` of _menu_items_dynamic.
ReadAcquire == state_lock = {}

\* The k-th copy of _menu_items_dynamic; the first one enters the block.
Read(k) ==
  /\ pc[Main] = ReadPc[k]
  /\ k = 1 => ReadAcquire
  /\ ui' = [ui EXCEPT !.copy[PubFields[k]] = state[PubFields[k]]]
  /\ state_lock' = state_lock \cup {Main}
  /\ pc' = [pc EXCEPT ![Main] = IF k < NFields THEN ReadPc[k + 1] ELSE "r_release"]
  /\ UNCHANGED << loc, arg, exc, state, file, hw, now, faults, ops, nstarted,
                  wrote, track, tray_menu >>

\* Leaving the `with` block; the copies go on to build the menu items.
ReadRelease ==
  /\ pc[Main] = "r_release"
  /\ state_lock' = state_lock \ {Main}
  /\ ui' = [ui EXCEPT !.copy = EmptyState]
  /\ pc' = [pc EXCEPT ![Main] = "ui_idle"]
  /\ UNCHANGED << loc, arg, exc, state, file, hw, now, faults, ops, nstarted,
                  wrote, track, tray_menu >>

\* ------------------------------------------------------------ set_mapping
\* Fingerprints the mapping submenu offers.
MenuFps == {state.mons[i].fp : i \in 1..Len(state.mons)}

\* MappingAcquire with a fault: the table is patched without the lock.
MappingAcquire_NoLock == TRUE

\* `with state_lock:` of set_mapping.
MappingAcquire == state_lock = {}

\* SetMappingLocked with a fault: save_map is called inside the `with` block.
SetMappingLocked_SaveInside(fp, idx) ==
  /\ pc[Main] = "ui_idle"
  /\ ops < MaxOps
  /\ Room(1)
  /\ MappingAcquire
  /\ LET new_map == DictSet(state.idx_map, fp, idx)
     IN /\ state' = [state EXCEPT !.idx_map = new_map]
        /\ ui' = [ui EXCEPT !.new_map = new_map, !.fp = fp, !.idx = idx,
                            !.saved = FALSE,
                            !.empty0 = (state.idx_map = EmptyMap),
                            !.before = file]
  /\ ops' = ops + 1
  /\ nstarted' = [nstarted EXCEPT ![Main] = 0]
  /\ arg' = [t \in Threads |->
               IF arg[t].src = "map0" THEN [arg[t] EXCEPT !.src = "map"] ELSE arg[t]]
  /\ pc' = [pc EXCEPT ![Main] = "m_open"]
  /\ track' = [track EXCEPT !.lastMap = TRUE]
  /\ state_lock' = {Main}
  /\ UNCHANGED << loc, exc, file, hw, now, faults, wrote, tray_menu >>

\* with state_lock: new_map = dict(state["idx_map"]); new_map[fp] = int(idx);
\* state["idx_map"] = new_map
SetMappingLocked(fp, idx) ==
  /\ pc[Main] = "ui_idle"
  /\ ops < MaxOps
  /\ Room(1)
  /\ MappingAcquire
  /\ LET new_map == DictSet(state.idx_map, fp, idx)
     IN /\ state' = [state EXCEPT !.idx_map = new_map]
        /\ ui' = [ui EXCEPT !.new_map = new_map, !.fp = fp, !.idx = idx,
                            !.saved = FALSE,
                            !.empty0 = (state.idx_map = EmptyMap),
                            !.before = file]
  /\ ops' = ops + 1
  /\ nstarted' = [nstarted EXCEPT ![Main] = 0]
  /\ arg' = [t \in Threads |->
               IF arg[t].src = "map0" THEN [arg[t] EXCEPT !.src = "map"] ELSE arg[t]]
  /\ pc' = [pc EXCEPT ![Main] = "m_open"]
  /\ track' = [track EXCEPT !.lastMap = TRUE]
  /\ UNCHANGED << loc, exc, state_lock, file, hw, now, faults, wrote, tray_menu >>

\* save_map: open(MAP_FILE, "w") truncates the file, or raises.
SaveOpen ==
  /\ pc[Main] = "m_open"
  /\ \/ /\ NoFail
        /\ file' = << >>
        /\ pc' = [pc EXCEPT ![Main] = "m_write"]
        /\ UNCHANGED track
     \/ /\ Fail
        /\ file' = file
        /\ pc' = [pc EXCEPT ![Main] = "m_spawn"]
        /\ track' = [track EXCEPT !.saveFailed = TRUE]
  /\ UNCHANGED << loc, arg, exc, state, state_lock, hw, ui, now, ops, nstarted,
                  wrote, tray_menu >>

\* save_map: json.dump and close write the table, or fail part-way.
SaveWrite ==
  /\ pc[Main] = "m_write"
  /\ \/ /\ NoFail
        /\ file' = JsonDump(ui.new_map)
        /\ ui' = [ui EXCEPT !.saved = TRUE]
        /\ track' = [track EXCEPT !.expect = @ \cup {ui.fp}]
     \/ /\ Fail
        /\ \E n \in 0..(Len(JsonDump(ui.new_map)) - 1) :
             file' = SubSeq(JsonDump(ui.new_map), 1, n)
        /\ ui' = ui
        /\ track' = [track EXCEPT !.saveFailed = TRUE]
  /\ pc' = [pc EXCEPT ![Main] = "m_spawn"]
  /\ UNCHANGED << loc, arg, exc, state, state_lock, hw, now, ops, nstarted,
                  wrote, tray_menu >>

\* refresh_state_async() at the end of set_mapping.
SetMappingRefresh ==
  /\ pc[Main] = "m_spawn"
  /\ refresh_state_async(Main, "ui_idle",
       [BlankArg EXCEPT !.src = IF ui.empty0 THEN "map0" ELSE "map",
                        !.fp = ui.fp, !.idx = ui.idx, !.saved = ui.saved],
       nstarted[Main])
  /\ ui' = BlankUi
  /\ UNCHANGED << state, state_lock, file, hw, now, faults, ops, track, tray_menu >>

\* ------------------------------------------------- the other menu handlers
\* "Refresh now": lambda icon, item: refresh_state_async()
RefreshNow ==
  /\ pc[Main] = "ui_idle"
  /\ ops < MaxOps
  /\ Room(1)
  /\ refresh_state_async(Main, "ui_idle", [BlankArg EXCEPT !.src = "now"], 0)
  /\ ops' = ops + 1
  /\ track' = [track EXCEPT !.lastMap = FALSE]
  /\ UNCHANGED << state, state_lock, file, hw, ui, now, faults, tray_menu >>

\* Endpoint ids the audio submenus offer; "" is the id of a device listed
\* without one.
MenuIds == {state.outs[i][2] : i \in 1..Len(state.outs)} \cup {""}

\* DispatchAudio with a fault: the handler calls set_default_device itself
\* and then refresh_state_async().
DispatchAudio_Inline(id, role) ==
  /\ pc[Main] = "ui_idle"
  /\ ops < MaxOps
  /\ Room(1)
  /\ hw' = [hw EXCEPT !.defs =
              [r \in Roles |-> IF r \in RolesSet(id, role) THEN id ELSE @[r]]]
  /\ refresh_state_async(Main, "ui_idle", [BlankArg EXCEPT !.src = "audio"], 0)
  /\ ops' = ops + 1
  /\ track' = [track EXCEPT !.lastMap = FALSE]
  /\ UNCHANGED << state, state_lock, file, ui, now, faults, tray_menu >>

\* handler of make_set_audio_handler: start work() on a thread.
DispatchAudio(id, role) ==
  /\ pc[Main] = "ui_idle"
  /\ ops < MaxOps
  /\ Room(2)
  /\ StartThread(Main, "ui_idle", "a_run",
       [BlankArg EXCEPT !.id = id, !.role = role], 0)
  /\ ops' = ops + 1
  /\ track' = [track EXCEPT !.lastMap = FALSE]
  /\ UNCHANGED << state, state_lock, file, hw, ui, now, faults, tray_menu >>

\* handler of make_set_dpi_handler: start work() on a thread.
DispatchDpi(pct, idx) ==
  /\ pc[Main] = "ui_idle"
  /\ ops < MaxOps
  /\ Room(2)
  /\ StartThread(Main, "ui_idle", "d_run",
       [BlankArg EXCEPT !.pct = pct, !.idx = idx], 0)
  /\ ops' = ops + 1
  /\ track' = [track EXCEPT !.lastMap = FALSE]
  /\ UNCHANGED << state, state_lock, file, hw, ui, now, faults, tray_menu >>

\* set_default_device(device_id, role) inside work().
AudioRun(t) ==
  /\ pc[t] = "a_run"
  /\ \/ /\ arg[t].id = ""                              \* if not device_id: return
        /\ NoFail
        /\ UNCHANGED << hw, exc >>
     \/ /\ arg[t].id # ""
        /\ NoFail
        /\ hw' = [hw EXCEPT !.defs =
                    [r \in Roles |-> IF r \in RolesSet(arg[t].id, arg[t].role)
                                     THEN arg[t].id ELSE @[r]]]
        /\ UNCHANGED exc
     \/ /\ arg[t].id # ""                              \* run_ps raises
        /\ Fail
        /\ exc' = [exc EXCEPT ![t] = TRUE]
        /\ UNCHANGED hw
  /\ pc' = [pc EXCEPT ![t] = "a_fin"]
  /\ UNCHANGED << loc, arg, state, state_lock, file, ui, now, ops, nstarted,
                  wrote, track, tray_menu >>

\* set_dpi(pct, idx) inside work().
DpiRun(t) ==
  /\ pc[t] = "d_run"
  /\ \/ /\ Fail                                        \* SetDpi.exe is missing
        /\ UNCHANGED << hw, exc >>
     \/ /\ NoFail
        /\ hw' = IF arg[t].idx \in HwIdx
                 THEN [hw EXCEPT !.dpi[arg[t].idx] = arg[t].pct]
                 ELSE hw
        /\ UNCHANGED exc
     \/ /\ Fail                                        \* subprocess.run raises
        /\ exc' = [exc EXCEPT ![t] = TRUE]
        /\ UNCHANGED hw
  /\ pc' = [pc EXCEPT ![t] = "d_fin"]
  /\ UNCHANGED << loc, arg, state, state_lock, file, ui, now, ops, nstarted,
                  wrote, track, tray_menu >>

\* ActionFinally with a fault: the refresh is started only when the mutation
\* returned, as after `try: ... except: raise` without `finally`.
ActionFinally_NoFinally(t) ==
  /\ pc[t] \in {"a_fin", "d_fin"}
  /\ IF exc[t]
     THEN /\ pc' = [pc EXCEPT ![t] = "a_raised"]
          /\ UNCHANGED << loc, arg, exc, nstarted, wrote >>
     ELSE StartThread(t, "a_done", "c_audio",
            [BlankArg EXCEPT !.src = IF pc[t] = "a_fin" THEN "audio" ELSE "dpi"],
            nstarted[t] + 1)
  /\ UNCHANGED << state, state_lock, file, hw, ui, now, faults, ops, track,
                  tray_menu >>

\* `finally: refresh_state_async()` of work(); then the thread ends, with the
\* exception if one was raised.
ActionFinally(t) ==
  /\ pc[t] \in {"a_fin", "d_fin"}
  /\ refresh_state_async(t, IF exc[t] THEN "a_raised" ELSE "a_done",
       [BlankArg EXCEPT !.src = IF pc[t] = "a_fin" THEN "audio" ELSE "dpi"],
       nstarted[t])
  /\ UNCHANGED << state, state_lock, file, hw, ui, now, faults, ops, track,
                  tray_menu >>

\* ------------------------------------------------------------------ Next
Next ==
  \/ \E t \in Threads : CollectAudio(t)
  \/ \E t \in Threads : CollectMons(t)
  \/ \E t \in Threads : CollectDpi(t)
  \/ \E t \in Threads, k \in 1..NFields : Publish(t, k)
  \/ \E t \in Workers : Notify(t)
  \/ OpenMenu
  \/ \E k \in 1..NFields : Read(k)
  \/ ReadRelease
  \/ \E fp \in MenuFps, idx \in IdxInputs : SetMappingLocked(fp, idx)
  \/ SaveOpen
  \/ SaveWrite
  \/ SetMappingRefresh
  \/ RefreshNow
  \/ \E id \in MenuIds, role \in RoleInputs : DispatchAudio(id, role)
  \/ \E pct \in PctInputs, idx \in MenuIdxSet(state.mons, state.idx_map) :
       DispatchDpi(pct, idx)
  \/ \E t \in Workers : AudioRun(t)
  \/ \E t \in Workers : DpiRun(t)
  \/ \E t \in Workers : ActionFinally(t)

Spec == Init /\ [][Next]_vars

TypeOK ==
  /\ Cardinality(state_lock) <= 1
  /\ faults <= MaxFaults
  /\ ops <= MaxOps

\* ------------------------------------------------------- load_map alone
\* Members a mapping file written outside the program may hold.
FileTokens ==
  { TokOpen, TokClose, TokListOpen, TokListClose,
    TokPair("fpA", 3), TokPair("fpB", 2),
    TokMember("fpA", "str", 0, << " ", "3" >>),
    TokMember("fpA", "str", 0, << "a" >>),
    TokMember("fpA", "float", 27, NoStr),
    TokMember("fpA", "bool", 1, NoStr),
    TokMember("fpA", "null", 0, NoStr),
    TokMember("fpB", "list", 0, NoStr) }

LoadInputs == UNION { [1..n -> FileTokens] : n \in 0..MaxFileLen }

InitLoad ==
  /\ pc = [t \in Threads |-> IF t = Main THEN "l_call" ELSE "unborn"]
  /\ loc = [t \in Threads |-> BlankLoc]
  /\ arg = [t \in Threads |-> BlankArg]
  /\ exc = [t \in Threads |-> FALSE]
  /\ state = EmptyState
  /\ state_lock = {}
  /\ file \in LoadInputs
  /\ hw = InitHw
  /\ ui = BlankUi
  /\ now = 0
  /\ faults = 0
  /\ ops = 0
  /\ nstarted = [t \in Threads |-> 0]
  /\ wrote = [t \in Threads |-> FALSE]
  /\ track = [ saveFailed |-> FALSE, expect |-> {}, lastMap |-> FALSE ]
  /\ tray_menu = "build_menu_fast"

\* idx_map = load_map(): open() raises on a missing or unreadable file, the
\* rest of the `try` raises as LoadRaises says; `except Exception` returns {}.
LoadCall ==
  /\ pc[Main] = "l_call"
  /\ \/ /\ Fail
        /\ loc' = [loc EXCEPT ![Main].idx_map = EmptyMap]
     \/ /\ NoFail
        /\ loc' = [loc EXCEPT ![Main].idx_map = load_map(file)]
  /\ pc' = [pc EXCEPT ![Main] = "l_ret"]
  /\ UNCHANGED << arg, exc, state, state_lock, file, hw, ui, now, ops, nstarted,
                  wrote, track, tray_menu >>

NextLoad == LoadCall

SpecLoad == InitLoad /\ [][NextLoad]_vars

\* ---------------------------------------- set_mapping from a wide menu
\* The indices the mapping submenu offers for every monitor:
\* range(1, max(MAX_IDX_CHOICES, len(mons)) + 1).
MenuChoices(mons) ==
  1..(IF Len(mons) > MAX_IDX_CHOICES THEN Len(mons) ELSE MAX_IDX_CHOICES)

\* A desk with one monitor more than MAX_IDX_CHOICES.
WideFps == << "fp1", "fp2", "fp3", "fp4", "fp5", "fp6", "fp7", "fp8", "fp9" >>
WideMons == [i \in 1..(MAX_IDX_CHOICES + 1) |->
               [index |-> i, name |-> "Mon", fp |-> WideFps[i]]]

\* The tray loop is idle after a start-up pass that published that desk.
InitWide ==
  /\ pc = [t \in Threads |-> IF t = Main THEN "ui_idle" ELSE "unborn"]
  /\ loc = [t \in Threads |-> BlankLoc]
  /\ arg = [t \in Threads |-> BlankArg]
  /\ exc = [t \in Threads |-> FALSE]
  /\ file \in InitFiles
  /\ state = [ outs |-> list_devices_by_type_from_raw(HwDevices, "playback"),
               ins |-> list_devices_by_type_from_raw(HwDevices, "recording"),
               defs |-> get_default_ids(InitHw.defs),
               mons |-> WideMons,
               idx_map |-> load_map(file),
               dpi |-> [i \in EffSet(WideMons, load_map(file)) \cap HwIdx |->
                          get_dpi_value(SetDpiValue(InitHw, i))],
               last_update |-> 1 ]
  /\ state_lock = {}
  /\ hw = InitHw
  /\ ui = BlankUi
  /\ now = 1
  /\ faults = 0
  /\ ops = 0
  /\ nstarted = [t \in Threads |-> 0]
  /\ wrote = [t \in Threads |-> FALSE]
  /\ track = [ saveFailed |-> FALSE, expect |-> DOMAIN load_map(file),
               lastMap |-> FALSE ]
  /\ tray_menu = "build_menu_fast"

\* The handlers of the mapping submenu and the set_mapping they call.
NextWide ==
  \/ \E fp \in MenuFps, idx \in MenuChoices(state.mons) : SetMappingLocked(fp, idx)
  \/ SaveOpen
  \/ SaveWrite
  \/ SetMappingRefresh

SpecWide == InitWide /\ [][NextWide]_vars

\* ------------------------------------------- index resolution alone
\* Monitor lists and mapping tables the scale loop and the menu are given.
MonLists ==
  { << >>,
    << [index |-> 1, name |-> "MonA", fp |-> "fpA"] >>,
    HwMons,
    << [index |-> 1, name |-> "MonB", fp |-> "fpB"],
       [index |-> 2, name |-> "MonA", fp |-> "fpA"] >>,
    FallbackMons }

Mappings ==
  UNION { [D -> {1, 2, 7}] : D \in SUBSET {"fpA", "fpB"} }

\* A start-up pass has listed the monitors and loaded the mapping, and is
\* about to read the scale values.
InitResolve ==
  /\ \E mons \in MonLists, idx_map \in Mappings :
       /\ pc = [t \in Threads |->
                  IF t # Main THEN "unborn"
                  ELSE IF Len(mons) = 0 THEN "p_outs" ELSE "c_dpi"]
       /\ loc = [t \in Threads |->
                   IF t # Main THEN BlankLoc
                   ELSE [BlankLoc EXCEPT
                           !.outs = list_devices_by_type_from_raw(HwDevices, "playback"),
                           !.ins = list_devices_by_type_from_raw(HwDevices, "recording"),
                           !.defs = get_default_ids(InitHw.defs),
                           !.mons = mons, !.idx_map = idx_map, !.i = 1]]
  /\ arg = [t \in Threads |-> BlankArg]
  /\ exc = [t \in Threads |-> FALSE]
  /\ state = EmptyState
  /\ state_lock = {}
  /\ file = << >>
  /\ hw = InitHw
  /\ ui = BlankUi
  /\ now = 0
  /\ faults = 0
  /\ ops = 0
  /\ nstarted = [t \in Threads |-> 0]
  /\ wrote = [t \in Threads |-> FALSE]
  /\ track = [ saveFailed |-> FALSE, expect |-> {}, lastMap |-> FALSE ]
  /\ tray_menu = "build_menu_fast"

\* The scale loop, the publishing block and the "set DPI" handlers.
NextResolve ==
  \/ CollectDpi(Main)
  \/ \E k \in 1..NFields : Publish(Main, k)
  \/ \E pct \in PctInputs, idx \in MenuIdxSet(state.mons, state.idx_map) :
       DispatchDpi(pct, idx)

SpecResolve == InitResolve /\ [][NextResolve]_vars

\* ================================================================ claims
Idle == {"unborn", "done", "aborted", "a_done", "a_raised"}

\* No callback is running and no daemon thread is alive.
Quiescent == pc[Main] = "ui_idle" /\ \A w \in Workers : pc[w] \in Idle

\* Thread t is inside the `with state_lock` block of collect_state.
MidPublish(t) == \E k \in 2..NFields : pc[t] = PubPc[k]

\* Thread t makes the last assignment of its publishing block in this step.
Publishes(t) == pc[t] = "p_last_update" /\ pc'[t] # "p_last_update"

\* The effective target indices, written out from the mapping and the
\* monitor list.
Effective(mons, mapping) ==
  { IF mons[i].fp \in DOMAIN mapping THEN mapping[mons[i].fp] ELSE mons[i].index :
      i \in 1..Len(mons) }

\* ---- C1 -----------------------------------------------------------------
\* C1: a menu read that overlaps a publishing refresh pass ends with seven
\* copies that are the seven fields of one snapshot: when the reader has made
\* its last copy, the copies equal the cache field by field and no pass is
\* part-way through its assignments.
C1_ReadSeesOneSnapshot ==
  pc[Main] = "r_release" =>
    /\ ui.copy = state
    /\ \A t \in Threads : ~MidPublish(t)

\* A read has completed while a pass with a collected snapshot was waiting
\* to publish it.
C1_Witness ==
  /\ pc[Main] = "r_release"
  /\ state.last_update > 0
  /\ \E t \in Workers : pc[t] = "p_outs" /\ loc[t].defs # state.defs

\* ---- C2 -----------------------------------------------------------------
\* C2 as stated: whenever no block is being executed, the keys of the cached
\* scale table are exactly the effective target indices of the cached
\* monitors under the cached mapping.
C2_ScaleKeysEqualEffective ==
  state_lock = {} => DOMAIN state.dpi = Effective(state.mons, state.idx_map)

\* C2 amended: at the moment a refresh pass completes its publishing block,
\* every key of the published scale table is an effective target index of
\* the published monitors under the published mapping.
C2_PublishedKeysAreEffective ==
  [][ \A t \in Threads :
        Publishes(t) =>
          DOMAIN state'.dpi \subseteq Effective(state'.mons, state'.idx_map) ]_vars

\* A pass has just published a snapshot with a non-empty mapping whose scale
\* table has an entry under a mapped index.
C2_Witness ==
  \E t \in Workers :
    /\ pc[t] = "notify"
    /\ state.idx_map # EmptyMap
    /\ \E fp \in DOMAIN state.idx_map : state.idx_map[fp] \in DOMAIN state.dpi
    /\ DOMAIN state.dpi \subseteq Effective(state.mons, state.idx_map)

\* ---- C3 -----------------------------------------------------------------
\* C3: once save_map has written the table of set_mapping(fp, n), load_map on
\* the file returns a table in which fp maps to n.
C3_SetThenLoad ==
  (pc[Main] = "m_spawn" /\ ui.saved) =>
    /\ ui.fp \in DOMAIN load_map(file)
    /\ load_map(file)[ui.fp] = ui.idx

\* A saved set_mapping whose file also holds another fingerprint's entry.
C3_Witness ==
  /\ pc[Main] = "m_spawn"
  /\ ui.saved
  /\ load_map(file)[ui.fp] = ui.idx
  /\ DOMAIN load_map(file) \ {ui.fp} # {}

\* ---- C4 -----------------------------------------------------------------
\* C4 as stated: when every save succeeded and all set-mapping actions and
\* refresh passes have completed, the file holds an entry for every
\* fingerprint it held at the start or that a set_mapping saved.
C4_NoEntryDropped ==
  (Quiescent /\ ~track.saveFailed) => track.expect \subseteq DOMAIN load_map(file)

\* ---- C5 -----------------------------------------------------------------
\* C5: an action that has completed, by returning or by raising, has started
\* exactly one refresh pass, and an action still running has started none.
C5_OneRefreshPerAction ==
  /\ \A w \in Workers :
       /\ pc[w] \in {"a_done", "a_raised"} => nstarted[w] = 1
       /\ pc[w] \in {"a_run", "a_fin", "d_run", "d_fin"} => nstarted[w] = 0
  /\ pc[Main] \in {"m_open", "m_write", "m_spawn"} => nstarted[Main] = 0
  /\ (pc[Main] = "ui_idle" /\ track.lastMap) => nstarted[Main] = 1

\* An action whose mutation raised has ended after starting its one pass.
C5_Witness == \E w \in Workers : pc[w] = "a_raised" /\ nstarted[w] = 1

\* ---- C6 -----------------------------------------------------------------
\* The hardware as a refresh pass without failures would report it.
CacheMatchesHardware ==
  /\ state.outs = list_devices_by_type_from_raw(HwDevices, "playback")
  /\ state.ins = list_devices_by_type_from_raw(HwDevices, "recording")
  /\ state.defs = hw.defs
  /\ state.mons = HwMons
  /\ state.dpi = [i \in Effective(HwMons, load_map(file)) \cap HwIdx |->
                    ToString(hw.dpi[i])]

\* C6 as stated: after some user action, when no provider has failed and
\* every callback and refresh pass has finished, the cache equals the
\* hardware state.
C6_EventuallyConsistent ==
  (Quiescent /\ ops > 0 /\ faults = 0) => CacheMatchesHardware

\* ---- C7 -----------------------------------------------------------------
\* The refresh pass of thread w was started by set_mapping("fpA", 3) called
\* on an empty cached mapping, and no set_mapping was called since.
PassOfMapA3(w) ==
  arg[w].src = "map0" /\ arg[w].fp = "fpA" /\ arg[w].idx = 3

C8_AudioFailureDoesNotAbort ==
  [][ \A t \in Workers : pc[t] = "c_audio" => pc'[t] # "aborted" ]_vars

\* ---- C9 -----------------------------------------------------------------
\* C9: the step in which collect_state fails leaves all seven fields of the
\* cache as they are, and the failing pass has assigned none of them before.
C9_FailedPassPublishesNothing ==
  [][ \A t \in Workers :
        (pc[t] # "aborted" /\ pc'[t] = "aborted") =>
          (state' = state /\ ~wrote[t] /\ ~wrote'[t]) ]_vars

\* A pass has been aborted while a snapshot published earlier is live.
C9_Witness ==
  \E t \in Workers : pc[t] = "aborted" /\ ~wrote[t] /\ state.last_update > 0

\* ---- C10 ----------------------------------------------------------------
\* C10: no thread running a refresh pass ends with an uncaught exception.
C10_RefreshNeverRaises == \A t \in Threads : pc[t] # "crashed"

\* Every pass has ended, after a failure was injected into one of them.
C10_Witness ==
  /\ Quiescent
  /\ faults > 0
  /\ \E t \in Workers : pc[t] \in {"done", "aborted"}
  /\ \A t \in Workers : pc[t] \notin {"a_done", "a_raised"}

\* ---- C11 ----------------------------------------------------------------
\* The members json.load keeps: the last one of every key.
Kept(f) ==
  {i \in 2..(Len(f) - 1) : \A j \in (i + 1)..(Len(f) - 1) : f[j].k # f[i].k}

\* The file holds one object whose values are all integers.
IsFpIntObject(f) == JsonValid(f) /\ \A i \in Kept(f) : f[i].ty = "int"

\* That object, as written.
Stored(f) ==
  [key \in {f[i].k : i \in Kept(f)} |->
     f[CHOOSE i \in Kept(f) : f[i].k = key].v]

\* C11 as stated: load_map returns the empty table when the file is missing
\* or unreadable or does not hold a fingerprint-to-integer object, and the
\* stored table otherwise.
C11_LoadFailSoft ==
  pc[Main] = "l_ret" =>
    loc[Main].idx_map =
      IF faults > 0 \/ ~IsFpIntObject(file) THEN EmptyMap ELSE Stored(file)

\* ---- C12 ----------------------------------------------------------------
\* C12 as stated: when save_map has failed, at whatever point, load_map
\* returns the table the file held when save_map was called.
C12_FailedSaveKeepsPrior ==
  (pc[Main] = "m_spawn" /\ ~ui.saved) => load_map(file) = load_map(ui.before)

\* ---- C13 ----------------------------------------------------------------
\* C13 as stated: every entry of the cached mapping a reader has copied is
\* an entry of the table in the mapping file.
C13_ReaderSeesOnlyCommitted ==
  pc[Main] = "r_release" =>
    \A fp \in DOMAIN ui.copy.idx_map :
      /\ fp \in DOMAIN load_map(file)
      /\ load_map(file)[fp] = ui.copy.idx_map[fp]

\* ---- C14 ----------------------------------------------------------------
\* Thread t makes a step of its publishing block, holding state_lock.
PublishStep(t) ==
  /\ \E k \in 1..NFields : pc[t] = PubPc[k]
  /\ pc'[t] # pc[t]
  /\ state_lock \subseteq {t}
  /\ state_lock' \subseteq {t}

\* C14 as stated: the cache changes only by a refresh pass installing its
\* snapshot; no other operation changes a field of it.
C14_OnlyPublishChangesCache ==
  [][ state' # state => \E t \in Threads : PublishStep(t) ]_vars

\* C14 amended: a refresh pass installs all seven fields of the snapshot it
\* assembled within one critical section of state_lock; the only other
\* change of the cache is set_mapping replacing the mapping field alone,
\* also under state_lock.
C14_WholesaleOrMappingOnly ==
  [][ /\ \A t \in Threads :
           Publishes(t) =>
             /\ state'.outs = loc[t].outs
             /\ state'.ins = loc[t].ins
             /\ state'.defs = loc[t].defs
             /\ state'.mons = loc[t].mons
             /\ state'.idx_map = loc[t].idx_map
             /\ state'.dpi = loc[t].dpi
             /\ state'.last_update = now'
      /\ state' # state =>
           \/ \E t \in Threads : PublishStep(t)
           \/ /\ pc[Main] = "ui_idle"
              /\ pc'[Main] = "m_open"
              /\ state_lock = {}
              /\ state' = [state EXCEPT !.idx_map = state'.idx_map] ]_vars

\* A pass started by set_mapping has published monitors and scale values
\* after set_mapping had replaced the mapping field.
C14_Witness ==
  \E w \in Workers :
    /\ pc[w] = "notify"
    /\ arg[w].src \in {"map", "map0"}
    /\ state.mons # << >>
    /\ state.dpi # EmptyMap
    /\ state.idx_map # EmptyMap

LockedPcs ==
  {PubPc[k] : k \in 2..NFields} \cup {ReadPc[k] : k \in 2..NFields}
    \cup {"r_release"}

\* Positions at which a thread is about to query a provider, read or write
\* the mapping file, or update the tray menu.
IoPcs ==
  {"c_audio", "c_mons", "c_dpi", "m_open", "m_write", "a_run", "d_run", "notify"}

\* C16: a thread that holds state_lock is copying or assigning cache fields,
\* and a thread at a provider call or a file operation does not hold it.
C16_NoIoUnderLock ==
  /\ \A t \in state_lock : pc[t] \in LockedPcs
  /\ \A t \in Threads : pc[t] \in IoPcs => t \notin state_lock

\* The menu read holds the lock while a pass is in the middle of its scale
\* reads.
C16_Witness ==
  /\ pc[Main] = "r_dpi"
  /\ Main \in state_lock
  /\ \E w \in Workers : pc[w] = "c_dpi" /\ loc[w].i = 2

\* ---- C17 ----------------------------------------------------------------
\* C17 as stated: no step of a set_mapping whose index lies outside
\* 1..MAX_IDX_CHOICES changes the cached mapping or the mapping file.
C17_OutOfRangeIsNoOp ==
  [][ (pc'[Main] \in {"m_open", "m_write", "m_spawn"}
         /\ pc'[Main] # pc[Main]
         /\ ui'.idx \notin 1..MAX_IDX_CHOICES)
        => (state'.idx_map = state.idx_map /\ file' = file) ]_vars

\* ---- C18 ----------------------------------------------------------------
\* The effective index of monitor m, written out.
Expected(mapping, m) == IF m.fp \in DOMAIN mapping THEN mapping[m.fp] ELSE m.index

\* C18: every turn of the scale loop of a refresh pass resolves the
\* monitor's index to mapping[fp] when fp is mapped and to the ephemeral
\* index otherwise; the menu offers exactly these indices for the cached
\* monitors and mapping, and a "set DPI" handler is bound to one of them.
C18_SameEffectiveIndex ==
  [][ /\ \A t \in Threads :
           (pc[t] = "c_dpi" /\ loc'[t].i = loc[t].i + 1) =>
             loc'[t].idx = Expected(loc[t].idx_map, loc[t].mons[loc[t].i])
      /\ MenuIdxSet(state.mons, state.idx_map) = Effective(state.mons, state.idx_map)
      /\ \A w \in Workers :
           (pc[w] # "d_run" /\ pc'[w] = "d_run") =>
             \E i \in 1..Len(state.mons) :
               arg'[w].idx = Expected(state.idx_map, state.mons[i]) ]_vars

\* With mapping {fpA: 7} and monitors (1, fpA), (2, fpB) published, the
\* scale table has the key 2 of fpB and a handler is bound to index 7.
C18_Witness ==
  /\ state.idx_map = [x \in {"fpA"} |-> 7]
  /\ state.mons = HwMons
  /\ 2 \in DOMAIN state.dpi
  /\ 1 \notin DOMAIN state.dpi
  /\ \E w \in Workers : pc[w] = "d_run" /\ arg[w].idx = 7

\* ---- C19 ----------------------------------------------------------------
\* C19: a menu read completed before any refresh pass has published holds
\* empty outputs, inputs, defaults, monitors, scale and mapping, and the
\* timestamp 0.
C19_EmptyBeforeFirstPublish ==
  (pc[Main] = "r_release" /\ now = 0) =>
    /\ ui.copy.outs = << >>
    /\ ui.copy.ins = << >>
    /\ DOMAIN ui.copy.defs = {}
    /\ ui.copy.mons = << >>
    /\ DOMAIN ui.copy.dpi = {}
    /\ DOMAIN ui.copy.idx_map = {}
    /\ ui.copy.last_update = 0

\* The start-up pass failed, the menu was read, and the pass that read
\* started has collected monitors but not published yet.
C19_Witness ==
  /\ pc[Main] = "r_release"
  /\ now = 0
  /\ \E w \in Workers : pc[w] = "p_outs" /\ loc[w].mons # << >>

\* ---- C20 ----------------------------------------------------------------
\* C20: nothing but state_lock orders the publications: a pass that has
\* collected its snapshot can enter its publishing block whenever the lock
\* is free, whichever passes were started before it and whatever has been
\* published since it collected.
C20_PublishNotSerialized ==
  \A t \in Threads :
    (pc[t] = "p_outs" /\ state_lock = {}) => ENABLED Publish(t, 1)

\* "Refresh now" started pass R1 on thread 1; the audio action on thread 2
\* then changed a default and started R2 on thread 3; R2 published before
\* R1 and has ended, R1 has published last, and with no failure injected
\* the cache holds R1's defaults, which are not those of the hardware.
C20_Witness ==
  /\ pc[1] = "notify" /\ arg[1].src = "now" /\ wrote[1]
  /\ pc[2] = "a_done"
  /\ pc[3] = "done" /\ wrote[3]
  /\ faults = 0
  /\ state.defs # hw.defs

\* ---- C21 ----------------------------------------------------------------
\* The texts SetDpi.exe prints for a scale it read.
ScaleValues == {ToString(p) : p \in PctInputs}

\* C21 as stated: every entry of a published scale table is a value the
\* scaling provider reported for a scale it read; a read that failed has
\* left no entry.
C21_ScaleEntriesAreValues ==
  [][ \A t \in Threads :
        Publishes(t) =>
          \A i \in DOMAIN state'.dpi : state'.dpi[i] \in ScaleValues ]_vars

\* ---- C22 ----------------------------------------------------------------
\* save_map has opened MAP_FILE for writing and has not finished writing.
SaveInProgress == pc[Main] = "m_write"

\* C22 as stated: with no provider failure, a refresh pass that publishes its
\* mapping table while a save_map is in progress publishes the table the file
\* held before the save or the table being saved, never an empty or partial
\* one.
C22_LoadDuringSaveIsOldOrNew ==
  [][ \A t \in Workers :
        ( /\ pc[t] = "p_idx_map" /\ pc'[t] = "p_dpi"
          /\ SaveInProgress
          /\ faults = 0 )
        => state'.idx_map \in {load_map(ui.before), ui.new_map} ]_vars

\* ---- C23 ----------------------------------------------------------------
\* C23: the cached timestamp never decreases, whatever the interleaving of
\* refresh passes and actions: it is the clock read inside the publishing
\* block, and the clock does not run backwards.
C23_TimestampNeverDecreases ==
  [][ state'.last_update >= state.last_update ]_vars

\* A newer timestamp on older data: "Refresh now" started pass R1 on thread
\* 1, which read the scales; a scaling action then changed one and started
\* R2 on thread 3; R2 published first, R1 published last with the third and
\* newest timestamp, and with no failure injected the cached scale table is
\* the one R1 read before the change.
C23_Witness ==
  /\ pc[1] = "notify" /\ arg[1].src = "now" /\ wrote[1]
  /\ pc[3] = "done" /\ wrote[3]
  /\ faults = 0
  /\ state.last_update = 3
  /\ \E i \in DOMAIN state.dpi : state.dpi[i] # ToString(hw.dpi[i])

\* ---- C24 ----------------------------------------------------------------
\* The `with state_lock` block of set_mapping, taken as one step.
SetMappingStep == pc[Main] = "ui_idle" /\ pc'[Main] = "m_open"

\* C24: the in-memory step of set_mapping(fp, n) sets the cached mapping
\* entry of fp to n and changes nothing else of the cache: outputs, inputs,
\* defaults, monitors, scale and timestamp are as before, no other
\* fingerprint gains, loses or changes its entry.
C24_SetMappingFrame ==
  [][ SetMappingStep =>
        /\ state'.outs = state.outs
        /\ state'.ins = state.ins
        /\ state'.defs = state.defs
        /\ state'.mons = state.mons
        /\ state'.dpi = state.dpi
        /\ state'.last_update = state.last_update
        /\ DOMAIN state'.idx_map = DOMAIN state.idx_map \cup {ui'.fp}
        /\ state'.idx_map[ui'.fp] = ui'.idx
        /\ \A f \in DOMAIN state.idx_map \ {ui'.fp} :
             state'.idx_map[f] = state.idx_map[f] ]_vars

\* set_mapping has just patched the cache, which holds a published snapshot
\* and the entry of another fingerprint beside the one that was set.
C24_Witness ==
  /\ pc[Main] = "m_open"
  /\ state.last_update > 0
  /\ state.outs # << >>
  /\ state.idx_map[ui.fp] = ui.idx
  /\ \E f \in DOMAIN state.idx_map : f # ui.fp

====
